---- MODULE Spec2Model ----
(***************************************************************************)
(* Model of the Huawei EMMA charger integration:                           *)
(*   read_device_info.py  read_device_list, parse_device_description,      *)
(*                        identify_subdevices                              *)
(*   sensor.py            ModbusChargerDataUpdateCoordinator,              *)
(*                        ModbusChargerPowerSensor                         *)
(*   const.py             the register catalog                             *)
(* Bytes are integers 0..255, byte strings and texts are sequences of      *)
(* them, a dict is the sequence of its <<key, value>> items in insertion   *)
(* order.                                                                  *)
(***************************************************************************)
EXTENDS Integers, Sequences, FiniteSets, TLC

VARIABLES
    \* read_device_list
    rdl_pc,        \* "start" | "loop" | "returned" | "raised"
    client,        \* the ModbusTcpClient: "none" | "open" | "closed" | "unconnected"
    object_id,     \* the object id of the next request
    all_info,      \* the dict accumulated so far
    requests,      \* the object ids requested so far, in order
    pages,         \* every response received so far, in order
    rdl_result,    \* what the call returned or raised
    \* identify_subdevices
    isd_pc,        \* "call" | "loop" | "returned" | "raised"
    info,          \* the catalog read_device_list returned
    isd_i,         \* how many items of info the loop has gone through
    chargers,      \* the list built so far
    \* the integration as set up: __init__.async_setup_entry, the coordinator
    discovered,    \* the slave ids of the chargers setup's discovery found
    slave,         \* coordinator.slave, the configured slave id
    setup_pc,      \* __init__.async_setup_entry: "start" | "forwarded" | "not_ready"
    hass_data,     \* hass.data[DOMAIN][entry.entry_id], None until stored
    \* ModbusChargerDataUpdateCoordinator: one _async_update_data
    cyc_pc,        \* "idle" | "reading" | "returned" | "failed"
    reg_i,         \* how many entries of REGISTER_DEFS the loop has gone through
    data,          \* _read_all's dict
    reads,         \* the read_holding_registers calls of this cycle, in order
    failed,        \* the keys whose read or decoding failed in this cycle
    cyc_error,     \* what _read_all raised, None if nothing
    coord_data,    \* coordinator.data
    last_update_success,
    update_error,  \* what _async_update_data raised, None if nothing
    cyc_client,    \* _read_all's ModbusTcpClient: "none" | "open" | "closed" | "unconnected"
    \* ModbusChargerPowerSensor
    power_sensor,  \* whether the sensor has been constructed
    prev_energy,   \* _prev_energy
    prev_time,     \* _prev_time
    pw_call,       \* the last native_value call: what it found, None before any
    pw_result,     \* what the last native_value call returned or raised
    held,          \* the last non-zero power a native_value call returned
    pw_read,       \* whether native_value was read since the last step of a cycle
    \* the decoding of one register block, lines 118-129 of sensor.py
    dec_regs,      \* rr.registers
    dec_def,       \* the register definition
    dec_value      \* what the decoding gave, None before it

rdlVars == <<rdl_pc, client, object_id, all_info, requests, pages, rdl_result>>
isdVars == <<isd_pc, info, isd_i, chargers>>

setupVars == <<discovered, slave, setup_pc, hass_data>>
cycVars ==
    <<cyc_pc, reg_i, data, reads, failed, cyc_error, coord_data, last_update_success,
      update_error, cyc_client>>

pwVars == <<power_sensor, prev_energy, prev_time, pw_call, pw_result, held>>

hostVars == <<pw_read>>
codecVars == <<dec_regs, dec_def, dec_value>>

vars == <<rdlVars, isdVars, setupVars, cycVars, pwVars, hostVars, codecVars>>

None == "None"

\* the state again, every value that may be None behind the flag telling
\* whether it is: two states differ exactly when their views do
Tag(x) == <<x = None, x>>
TagResult(r) == IF r = None THEN <<TRUE>> ELSE <<FALSE, r[1], Tag(r[2])>>

stateView ==
    << rdl_pc, client, Tag(object_id), all_info, requests, pages, Tag(rdl_result),
       isdVars, discovered, slave, setup_pc, Tag(hass_data),
       cyc_pc, reg_i, data, reads, failed, cyc_error, Tag(coord_data),
       last_update_success, update_error, cyc_client,
       power_sensor, Tag(prev_energy), Tag(prev_time),
       pw_call.called, Tag(pw_call.entry), Tag(pw_call.now),
       Tag(pw_call.prev_energy), Tag(pw_call.prev_time), Tag(pw_call.held),
       TagResult(pw_result), Tag(held), pw_read,
       dec_regs, Tag(dec_def), Tag(dec_value) >>

----------------------------------------------------------------------------
(* Python dict, as the sequence of its items in insertion order *)

RECURSIVE DictKeys(_)
DictKeys(d) == IF d = <<>> THEN {} ELSE {d[1][1]} \cup DictKeys(Tail(d))

RECURSIVE DictGet(_, _, _)
DictGet(d, k, default) ==
    IF d = <<>> THEN default
    ELSE IF d[1][1] = k THEN d[1][2] ELSE DictGet(Tail(d), k, default)

\* d[k] = v: an existing key keeps its place, a new key goes last
DictSet(d, k, v) ==
    IF k \in DictKeys(d)
    THEN [i \in 1..Len(d) |-> IF d[i][1] = k THEN <<k, v>> ELSE d[i]]
    ELSE Append(d, <<k, v>>)

RECURSIVE DictUpdate(_, _)
DictUpdate(d, items) ==
    IF items = <<>> THEN d
    ELSE DictUpdate(DictSet(d, items[1][1], items[1][2]), Tail(items))

\* int.from_bytes(b, byteorder='little')
RECURSIVE IntFromBytesLittle(_)
IntFromBytesLittle(b) ==
    IF b = <<>> THEN 0 ELSE b[1] + 256 * IntFromBytesLittle(Tail(b))

\* int.from_bytes(b, byteorder='big')
RECURSIVE IntFromBytes(_)
IntFromBytes(b) ==
    IF b = <<>> THEN 0
    ELSE b[Len(b)] + 256 * IntFromBytes(SubSeq(b, 1, Len(b) - 1))

----------------------------------------------------------------------------
(* read_device_list *)

ROOT_OID == 135

\* the most identification requests the device is followed for
MaxPages == 3

\* object ids and payloads the modelled device answers with
PageOIDs == {ROOT_OID, 136}
NextOIDs == {136, 137}
PagePayloads == {<<0, 2>>, <<1>>}

\* the information dict of one response: at most two objects
PageInfos ==
    {<<>>}
    \cup {<<<<o, p>>>> : o \in PageOIDs, p \in PagePayloads}
    \cup {<< <<ROOT_OID, p>>, <<136, q>> >> : p \in PagePayloads, q \in PagePayloads}
    \cup {<< <<136, q>>, <<ROOT_OID, p>> >> : p \in PagePayloads, q \in PagePayloads}

\* what one read_device_information call can do: a page, a ModbusIOException
\* ("io"), an error or exception response ("error"), any other exception
Responses ==
    [kind : {"ok"}, information : PageInfos, more_follows : {TRUE},
     next_object_id : NextOIDs]
    \cup [kind : {"ok"}, information : PageInfos, more_follows : {FALSE},
          next_object_id : {0}]
    \cup [kind : {"io", "error", "exception"}, information : {<<>>},
          more_follows : {FALSE}, next_object_id : {0}]

IdleRdl ==
    /\ rdl_pc = "start"
    /\ client = "none"
    /\ object_id = None
    /\ all_info = <<>>
    /\ requests = <<>>
    /\ pages = <<>>
    /\ rdl_result = None

\* lines 26-32: connect, then the locals of the try block
RdlConnect ==
    /\ rdl_pc = "start"
    /\ \/ /\ client' = "open"
          /\ rdl_pc' = "loop"
          /\ object_id' = ROOT_OID
          /\ all_info' = <<>>
          /\ UNCHANGED rdl_result
       \/ /\ client' = "unconnected"
          /\ rdl_pc' = "raised"
          /\ rdl_result' = [raised |-> "ConnectionError"]
          /\ UNCHANGED <<object_id, all_info>>
    /\ UNCHANGED <<requests, pages, isdVars, setupVars, cycVars, pwVars, hostVars, codecVars>>

\* the loop without the check of line 44: an error response read as a page
RdlRaisesUnchecked(resp) ==
    CASE resp.kind = "io" -> "ConnectionError"
      [] resp.kind = "exception" -> "Exception"
      [] OTHER -> None

\* lines 35-45: what the response makes the loop raise, None for a good page
RdlRaises(resp) ==
    CASE resp.kind = "io" -> "ConnectionError"
      [] resp.kind = "error" -> "ModbusException"
      [] resp.kind = "exception" -> "Exception"
      [] OTHER -> None

\* all_info = resp.information: each page replaces what was gathered
AccumulateReplacing(d, information) == information

\* line 47: all_info.update(resp.information)
Accumulate(d, information) == DictUpdate(d, information)

\* lines 49-50: the object id of the next request
NextObjectId(resp) == resp.next_object_id

\* client.close() as the last statement of the try block, no finally: an
\* exception leaves the client as it is
RdlFinallyOnReturn(c, raising) == IF raising THEN c ELSE "closed"

\* lines 60-61: finally: client.close(), on the return and on every raise
RdlFinally(c, raising) == "closed"

\* lines 55-61 after the loop: the count, the return, the finally
RdlFinish(d) ==
    LET raw_count == DictGet(d, ROOT_OID, None) IN
    /\ client' = RdlFinally(client, raw_count = None)
    /\ IF raw_count = None
       THEN /\ rdl_pc' = "raised"
            /\ rdl_result' = [raised |-> "ValueError"]
       ELSE /\ rdl_pc' = "returned"
            /\ rdl_result' = [num_devices |-> IntFromBytes(raw_count),
                              all_info |-> d]

\* lines 34-53: one pass of the while loop, the device answering with one
\* of resps
RdlRequestOf(resps) ==
    /\ rdl_pc = "loop"
    /\ Len(requests) < MaxPages
    /\ requests' = Append(requests, object_id)
    /\ UNCHANGED <<isdVars, setupVars, cycVars, pwVars, hostVars, codecVars>>
    /\ \E resp \in resps :
         /\ pages' = Append(pages, resp)
         /\ IF RdlRaises(resp) # None
            THEN /\ rdl_pc' = "raised"
                 /\ rdl_result' = [raised |-> RdlRaises(resp)]
                 /\ client' = RdlFinally(client, TRUE)
                 /\ UNCHANGED <<object_id, all_info>>
            ELSE /\ all_info' = Accumulate(all_info, resp.information)
                 /\ IF resp.more_follows
                    THEN /\ object_id' = NextObjectId(resp)
                         /\ UNCHANGED <<rdl_pc, client, rdl_result>>
                    ELSE /\ RdlFinish(all_info')
                         /\ UNCHANGED object_id

RdlRequest == RdlRequestOf(Responses)

----------------------------------------------------------------------------
(* Texts: bytes.decode('ascii', errors='ignore'), rstrip, split, upper, int *)

NUL == 0
SEMICOLON == 59
EQUALS == 61
UNDERSCORE == 95

\* bytes.decode('ascii', errors='ignore'): bytes above 127 are dropped
DecodeAsciiIgnore(b) == SelectSeq(b, LAMBDA c : c < 128)

\* str.rstrip('\x00')
RECURSIVE RStripNul(_)
RStripNul(s) ==
    IF s # <<>> /\ s[Len(s)] = NUL THEN RStripNul(SubSeq(s, 1, Len(s) - 1)) ELSE s

\* the index of the first c in s, 0 when there is none
RECURSIVE IndexOf(_, _, _)
IndexOf(s, c, from) ==
    IF from > Len(s) THEN 0
    ELSE IF s[from] = c THEN from ELSE IndexOf(s, c, from + 1)

\* str.split(sep): never empty, '' splits to ['']
RECURSIVE Split(_, _)
Split(s, sep) ==
    LET i == IndexOf(s, sep, 1) IN
    IF i = 0 THEN <<s>>
    ELSE <<SubSeq(s, 1, i - 1)>> \o Split(SubSeq(s, i + 1, Len(s)), sep)

\* str.upper() on ASCII text
Upper(s) == [i \in 1..Len(s) |-> IF s[i] >= 97 /\ s[i] <= 122 THEN s[i] - 32 ELSE s[i]]

\* str.strip() as int() applies it: ASCII whitespace at both ends
IsSpace(c) == (c >= 9 /\ c <= 13) \/ (c >= 28 /\ c <= 32)

RECURSIVE LStrip(_)
LStrip(s) == IF s # <<>> /\ IsSpace(s[1]) THEN LStrip(Tail(s)) ELSE s

RECURSIVE RStrip(_)
RStrip(s) ==
    IF s # <<>> /\ IsSpace(s[Len(s)]) THEN RStrip(SubSeq(s, 1, Len(s) - 1)) ELSE s

IsDigit(c) == c >= 48 /\ c <= 57

\* the digits of an int() literal: digits, single underscores between them
IsDigits(s) ==
    /\ s # <<>>
    /\ IsDigit(s[1]) /\ IsDigit(s[Len(s)])
    /\ \A i \in 1..Len(s) : IsDigit(s[i]) \/ s[i] = UNDERSCORE
    /\ \A i \in 1..(Len(s) - 1) : ~(s[i] = UNDERSCORE /\ s[i + 1] = UNDERSCORE)

Unsigned(s) == IF s # <<>> /\ s[1] \in {43, 45} THEN Tail(s) ELSE s

\* whether int(s) succeeds on the text s (None: TypeError)
IsPyInt(s) == s # None /\ IsDigits(Unsigned(LStrip(RStrip(s))))

RECURSIVE DigitsValue(_)
DigitsValue(s) ==
    IF s = <<>> THEN 0
    ELSE IF s[Len(s)] = UNDERSCORE THEN DigitsValue(SubSeq(s, 1, Len(s) - 1))
    ELSE (s[Len(s)] - 48) + 10 * DigitsValue(SubSeq(s, 1, Len(s) - 1))

\* int(s), where it succeeds
PyInt(s) ==
    LET t == LStrip(RStrip(s)) IN
    IF t[1] = 45 THEN 0 - DigitsValue(Tail(t)) ELSE DigitsValue(Unsigned(t))

----------------------------------------------------------------------------
(* parse_device_description *)

\* lines 77-84: the pairs after the first, folded into attrs
RECURSIVE ParsePairs(_, _)
ParsePairs(pairs, attrs) ==
    IF pairs = <<>> THEN attrs
    ELSE LET pair == pairs[1]
             e == IndexOf(pair, EQUALS, 1)
             k == SubSeq(pair, 1, e - 1)
             v == SubSeq(pair, e + 1, Len(pair))
         IN  IF e = 0 THEN ParsePairs(Tail(pairs), attrs)
             ELSE IF IsPyInt(k)
                  THEN ParsePairs(Tail(pairs), DictSet(attrs, PyInt(k), v))
                  ELSE ParsePairs(Tail(pairs), attrs)

\* line 75
DescStr(desc_bytes) == RStripNul(DecodeAsciiIgnore(desc_bytes))

parse_device_description(desc_bytes) ==
    ParsePairs(Split(DescStr(desc_bytes), SEMICOLON), <<>>)

----------------------------------------------------------------------------
(* identify_subdevices *)

CHARGER == <<67, 72, 65, 82, 71, 69, 82>>

\* line 105 without upper()
IsChargerRecordExact(attrs) == DictGet(attrs, 8, <<>>) = CHARGER

\* line 105
IsChargerRecord(attrs) == Upper(DictGet(attrs, 8, <<>>)) = CHARGER

\* lines 102-113: what one item of info adds to the list
ChargersOf(oid, raw) ==
    LET attrs == parse_device_description(raw)
        sid_val == DictGet(attrs, 5, None)
    IN  IF oid = ROOT_OID THEN <<>>
        ELSE IF ~IsChargerRecord(attrs) THEN <<>>
        ELSE IF ~IsPyInt(sid_val) THEN <<>>
        ELSE <<[obj_id |-> oid, attrs |-> attrs, slave_id |-> PyInt(sid_val)]>>

\* the texts the modelled device builds its descriptions from:
\*   "5=83"  "5=8x"  "8=CHARGER\0"  "8=Char\xFFger"  "8=PUMP"  "58;k=5"
Pairs ==
    { <<53, 61, 56, 51>>,
      <<53, 61, 56, 120>>,
      <<56, 61, 67, 72, 65, 82, 71, 69, 82, 0>>,
      <<56, 61, 67, 104, 97, 114, 255, 103, 101, 114>>,
      <<56, 61, 80, 85, 77, 80>>,
      <<53, 56, 59, 107, 61, 53>> }

\* the most such texts in one description
MaxPairs == 2

RECURSIVE Descriptions(_)
Descriptions(n) ==
    IF n = 0 THEN {<<>>}
    ELSE Descriptions(n - 1)
         \cup {p : p \in Pairs}
         \cup {d \o <<SEMICOLON>> \o p : d \in Descriptions(n - 1) \ {<<>>}, p \in Pairs}

\* the orders in which the dict returned by read_device_list holds its keys
CatalogOrders ==
    { <<ROOT_OID>>, <<ROOT_OID, 136>>, <<136, ROOT_OID>>,
      <<ROOT_OID, 136, 137>>, <<137, ROOT_OID, 136>> }

AllDescriptions == Descriptions(MaxPairs)

\* a catalog read_device_list can return: the root object is always there
Catalog(ord, d136, d137) ==
    [i \in 1..Len(ord) |->
        <<ord[i], CASE ord[i] = ROOT_OID -> <<0, 2>>
                    [] ord[i] = 136 -> d136
                    [] OTHER -> d137>>]

OidsOf(ord) == {ord[i] : i \in 1..Len(ord)}

IdleIsd ==
    /\ isd_pc = "call"
    /\ info = <<>>
    /\ isd_i = 0
    /\ chargers = <<>>

\* line 97: read_device_list returns its catalog, the descriptions in it being
\* among descs, or raises
IsdReadDeviceListOf(descs) ==
    /\ isd_pc = "call"
    /\ \/ \E ord \in CatalogOrders, d136 \in descs, d137 \in descs :
            /\ 136 \notin OidsOf(ord) => d136 = <<>>
            /\ 137 \notin OidsOf(ord) => d137 = <<>>
            /\ info' = Catalog(ord, d136, d137)
            /\ isd_pc' = "loop"
       \/ /\ isd_pc' = "raised"
          /\ UNCHANGED info
    /\ UNCHANGED <<isd_i, chargers, rdlVars, setupVars, cycVars, pwVars, hostVars, codecVars>>

IsdReadDeviceList == IsdReadDeviceListOf(AllDescriptions)

\* lines 101-113: one pass of the for loop
IsdItem ==
    /\ isd_pc = "loop"
    /\ isd_i < Len(info)
    /\ isd_i' = isd_i + 1
    /\ chargers' = chargers \o ChargersOf(info[isd_i + 1][1], info[isd_i + 1][2])
    /\ UNCHANGED <<isd_pc, info, rdlVars, setupVars, cycVars, pwVars, hostVars, codecVars>>

\* lines 115-117
IsdReturn ==
    /\ isd_pc = "loop"
    /\ isd_i = Len(info)
    /\ isd_pc' = "returned"
    /\ UNCHANGED <<info, isd_i, chargers, rdlVars, setupVars, cycVars, pwVars, hostVars, codecVars>>

----------------------------------------------------------------------------
(* const.py: the register catalog, imported by sensor.py as REGISTER_DEFS *)

RegisterDef(key, name, addr, qty, rtype, gain, unit) ==
    [key |-> key, name |-> name, addr |-> addr, qty |-> qty, rtype |-> rtype,
     gain |-> gain, unit |-> unit]

REGISTER_DEFS ==
    << RegisterDef("offering_name",    "Offering name",    30000, 15, "STR", 1,    ""),
       RegisterDef("esn",              "ESN",              30015, 16, "STR", 1,    ""),
       RegisterDef("software_version", "Software version", 30031, 16, "STR", 1,    ""),
       RegisterDef("rated_power",      "Rated power",      30076, 2,  "U32", 10,   "kW"),
       RegisterDef("charger_model",    "Charger model",    30078, 14, "STR", 1,    ""),
       RegisterDef("bluetooth_name",   "Bluetooth name",   30094, 16, "STR", 1,    ""),
       RegisterDef("phase_a_voltage",  "Phase A voltage",  30500, 2,  "U32", 10,   "V"),
       RegisterDef("phase_b_voltage",  "Phase B voltage",  30502, 2,  "U32", 10,   "V"),
       RegisterDef("phase_c_voltage",  "Phase C voltage",  30504, 2,  "U32", 10,   "V"),
       RegisterDef("total_energy",     "Total energy",     30506, 2,  "U32", 1000, "kWh"),
       RegisterDef("charger_temp",     "Charger temp.",    30508, 2,  "I32", 10,   "Â°C") >>

RegisterKeys == {REGISTER_DEFS[i].key : i \in 1..Len(REGISTER_DEFS)}

----------------------------------------------------------------------------
(* ModbusChargerDataUpdateCoordinator *)

\* a number raw / gain, kept exact
Frac(n, d) == <<n, d>>
Num(x) == x[1]
Den(x) == x[2]

\* line 119: b"".join(r.to_bytes(2, byteorder="big") for r in regs)
RECURSIVE WordsToBytes(_)
WordsToBytes(regs) ==
    IF regs = <<>> THEN <<>>
    ELSE <<regs[1] \div 256, regs[1] % 256>> \o WordsToBytes(Tail(regs))

\* line 122
DecodeText(regs) == RStripNul(DecodeAsciiIgnore(WordsToBytes(regs)))

\* a Python int of up to 33 bits, as <<high, low>>: high * 65536 + low with
\* 0 <= low < 65536
Wide(high, low) == <<high, low>>

\* the two halves of a natural below 2^31
WideOf(n) == Wide(n \div 65536, n % 65536)

\* the number, where it has no more than 31 bits
WideValue(a) == a[1] * 65536 + a[2]

\* a & b and a | b on naturals
RECURSIVE BitAnd(_, _)
BitAnd(a, b) ==
    IF a = 0 \/ b = 0 THEN 0
    ELSE (a % 2) * (b % 2) + 2 * BitAnd(a \div 2, b \div 2)

RECURSIVE BitOr(_, _)
BitOr(a, b) ==
    IF a = 0 THEN b
    ELSE IF b = 0 THEN a
    ELSE (IF a % 2 = 1 \/ b % 2 = 1 THEN 1 ELSE 0) + 2 * BitOr(a \div 2, b \div 2)

\* w << 16 of a 16-bit word
ShiftLeft16(w) == Wide(w, 0)

WideOr(a, b) == Wide(BitOr(a[1], b[1]), BitOr(a[2], b[2]))
WideAnd(a, b) == Wide(BitAnd(a[1], b[1]), BitAnd(a[2], b[2]))

\* a - b, the low half borrowing from the high one
WideSub(a, b) ==
    IF a[2] < b[2] THEN Wide(a[1] - b[1] - 1, a[2] - b[2] + 65536)
    ELSE Wide(a[1] - b[1], a[2] - b[2])

\* 0x80000000 and 1 << 32
SIGN_BIT == Wide(32768, 0)
TWO_32 == Wide(65536, 0)

\* line 125 alone: the words read unsigned whatever the type
DecodeRawUnsigned(regs, rtype) == WideOr(ShiftLeft16(regs[1]), WideOf(regs[2]))

\* lines 125-127: (regs[0] << 16) | regs[1], less 1 << 32 for an I32 with bit 31
\* set
DecodeRawWide(regs, rtype) ==
    LET raw == WideOr(ShiftLeft16(regs[1]), WideOf(regs[2])) IN
    IF rtype = "I32" /\ WideAnd(raw, SIGN_BIT) # Wide(0, 0)
    THEN WideSub(raw, TWO_32)
    ELSE raw

\* lines 125-127, as the number itself: for the values of the polled device,
\* which fit 31 bits
DecodeRaw(regs, rtype) == WideValue(DecodeRawWide(regs, rtype))

\* lines 121-129: whether decoding raises (IndexError on regs[0] or regs[1])
DecodeRaises(regs, rtype) == rtype # "STR" /\ Len(regs) < 2

\* lines 121-129: the value stored for the register
DecodeValue(regs, def) ==
    IF def.rtype = "STR" THEN DecodeText(regs)
    ELSE Frac(DecodeRaw(regs, def.rtype), def.gain)

\* lines 121-129 for any words: the raw number in its two halves
DecodeValueWide(regs, def) ==
    IF def.rtype = "STR" THEN DecodeText(regs)
    ELSE Frac(DecodeRawWide(regs, def.rtype), def.gain)

\* the most reads that fail in one cycle of the modelled device
MaxFaults == 2

\* the words of a good answer: "EM" and NUL padding for a string
GoodWords(def, energies) ==
    IF def.rtype = "STR" THEN {[i \in 1..def.qty |-> IF i = 1 THEN 17741 ELSE 0]}
    ELSE IF def.key = "total_energy" THEN {<<e \div 65536, e % 65536>> : e \in energies}
    ELSE {<<0, 250>>}

\* what one read_holding_registers call can do: the registers asked for, fewer
\* registers ("ok" with one word), a ModbusIOException ("io"), an error
\* response ("error"), any other exception
RegResponses(def, faulty, energies) ==
    {[kind |-> "ok", registers |-> w] : w \in GoodWords(def, energies)}
    \cup (IF def.key \in faulty
          THEN {[kind |-> "ok", registers |-> <<17741>>]}
               \cup {[kind |-> k, registers |-> <<>>] : k \in {"io", "error", "exception"}}
          ELSE {})

\* whether the response fails the read of one register
ReadFails(resp, def) == resp.kind # "ok" \/ DecodeRaises(resp.registers, def.rtype)

\* whether the failure leaves the for loop by an exception nothing catches
ReadAborts(resp, def) ==
    \/ resp.kind = "exception"
    \/ resp.kind = "ok" /\ DecodeRaises(resp.registers, def.rtype)

\* the key "{registerKey}_{slaveAddress}"
ResultKeyWithSlave(def, s) == def.key \o "_" \o ToString(s)

\* line 123, 129: the result key of a register, data[key]
ResultKey(def, s) == def.key

\* line 109: the slave address a cycle reads, self.slave
ReadSlave(s, found) == s

\* __init__.py line 45: the sensor platform is set up once the entry is forwarded
PlatformLoadedAlways(pc) == TRUE

PlatformLoaded(pc) == pc = "forwarded"

\* sensor.py lines 94-97 without the except clause
UpdateRaisesUnwrapped(err) == err

\* sensor.py lines 94-97: whatever _read_all raises leaves as UpdateFailed
UpdateRaises(err) == IF err = None THEN None ELSE "UpdateFailed"

\* entry.data, by the slave id it configures
Config(s) == <<s>>

\* the slave addresses of a list of discovered devices
RECURSIVE SlaveIds(_)
SlaveIds(found) ==
    IF found = <<>> THEN <<>> ELSE <<found[1].slave_id>> \o SlaveIds(Tail(found))

\* a setup that gives up when discovery found no charger
SetupRaisesWithoutChargers(outcome, found) ==
    IF outcome = "raised" \/ found = <<>> THEN "ConfigEntryNotReady" ELSE None

\* __init__.py lines 27-41: what async_setup_entry raises once
\* identify_subdevices is over
SetupRaises(outcome, found) ==
    IF outcome = "raised" THEN "ConfigEntryNotReady" ELSE None

\* the integration set up, discovery having found one of `found`
IdleSetup(slaves, found) ==
    /\ slave \in slaves
    /\ discovered \in found
    /\ setup_pc = "forwarded"
    /\ hass_data = Config(slave)

\* __init__.py lines 36-47: the rest of async_setup_entry
SetupEntry ==
    /\ setup_pc = "start"
    /\ isd_pc \in {"returned", "raised"}
    /\ IF SetupRaises(isd_pc, chargers) # None
       THEN /\ setup_pc' = "not_ready"
            /\ UNCHANGED <<discovered, hass_data>>
       ELSE /\ setup_pc' = "forwarded"
            /\ hass_data' = Config(slave)
            /\ discovered' = SlaveIds(chargers)
    /\ UNCHANGED <<slave, rdlVars, isdVars, cycVars, pwVars, hostVars, codecVars>>

IdleCyc ==
    /\ cyc_pc = "idle"
    /\ reg_i = 0
    /\ data = <<>>
    /\ reads = <<>>
    /\ failed = {}
    /\ cyc_error = None
    /\ coord_data = None
    /\ last_update_success = FALSE
    /\ update_error = None
    /\ cyc_client = "none"

\* sensor.py 130-131: finally: client.close(), on the return and on every raise
ReadAllFinally(c, raising) == "closed"

\* lines 92-104: _async_update_data starts _read_all, which connects
ReadAllConnect ==
    /\ PlatformLoaded(setup_pc)
    /\ cyc_pc \in {"idle", "returned", "failed"}
    /\ reg_i' = 0
    /\ data' = <<>>
    /\ reads' = <<>>
    /\ failed' = {}
    /\ \/ /\ cyc_pc' = "reading"
          /\ cyc_client' = "open"
          /\ cyc_error' = None
          /\ update_error' = None
          /\ UNCHANGED <<coord_data, last_update_success>>
       \/ /\ cyc_pc' = "failed"
          /\ cyc_client' = "unconnected"
          /\ cyc_error' = "UpdateFailed"
          /\ update_error' = UpdateRaises(cyc_error')
          /\ last_update_success' = FALSE
          /\ UNCHANGED coord_data
    /\ pw_read' = FALSE
    /\ UNCHANGED <<rdlVars, isdVars, setupVars, pwVars, codecVars>>

\* lines 106-129: one pass of the for loop; an exception nothing catches goes
\* through the finally to _async_update_data, which raises UpdateFailed
ReadRegister(faulty, energies) ==
    /\ cyc_pc = "reading"
    /\ reg_i < Len(REGISTER_DEFS)
    /\ LET def == REGISTER_DEFS[reg_i + 1] IN
       \E resp \in RegResponses(def, faulty, energies) :
         /\ ReadFails(resp, def) => Cardinality(failed) < MaxFaults
         /\ reads' = Append(reads, [slave |-> ReadSlave(slave, discovered),
                                    address |-> def.addr, count |-> def.qty])
         /\ reg_i' = reg_i + 1
         /\ failed' = IF ReadFails(resp, def) THEN failed \cup {def.key} ELSE failed
         /\ IF ReadAborts(resp, def)
            THEN /\ cyc_pc' = "failed"
                 /\ cyc_error' = IF resp.kind = "exception" THEN "Exception" ELSE "IndexError"
                 /\ update_error' = UpdateRaises(cyc_error')
                 /\ last_update_success' = FALSE
                 /\ cyc_client' = ReadAllFinally(cyc_client, TRUE)
                 /\ UNCHANGED <<data, coord_data>>
            ELSE /\ data' = IF ReadFails(resp, def) THEN data
                            ELSE DictSet(data, ResultKey(def, slave),
                                         <<DecodeValue(resp.registers, def), def.unit>>)
                 /\ UNCHANGED <<cyc_pc, cyc_error, coord_data, last_update_success,
                                update_error, cyc_client>>
    /\ pw_read' = FALSE
    /\ UNCHANGED <<rdlVars, isdVars, setupVars, pwVars, codecVars>>

\* lines 130-133 and 95: close, return data; the coordinator keeps it
ReadAllReturn ==
    /\ cyc_pc = "reading"
    /\ reg_i = Len(REGISTER_DEFS)
    /\ cyc_pc' = "returned"
    /\ coord_data' = data
    /\ last_update_success' = TRUE
    /\ cyc_client' = ReadAllFinally(cyc_client, FALSE)
    /\ UNCHANGED <<reg_i, data, reads, failed, cyc_error, update_error>>
    /\ pw_read' = FALSE
    /\ UNCHANGED <<rdlVars, isdVars, setupVars, pwVars, codecVars>>

----------------------------------------------------------------------------
(* Exact arithmetic for the floats of native_value *)

RECURSIVE GCD(_, _)
GCD(a, b) == IF b = 0 THEN a ELSE GCD(b, a % b)

Abs(x) == IF x < 0 THEN 0 - x ELSE x

\* n / d in lowest terms, d > 0
Norm(n, d) ==
    LET g == GCD(Abs(n), Abs(d))
        sg == IF d < 0 THEN 0 - 1 ELSE 1
    IN  Frac(sg * (n \div g), sg * (d \div g))

FracSub(a, b) ==
    IF Den(a) = Den(b) THEN Norm(Num(a) - Num(b), Den(a))
    ELSE Norm(Num(a) * Den(b) - Num(b) * Den(a), Den(a) * Den(b))

FracDiv(a, b) ==
    LET x == Norm(Num(a), Num(b))
        y == Norm(Den(b), Den(a))
    IN  Norm(Num(x) * Num(y), Den(x) * Den(y))

FracEq(a, b) == Num(a) * Den(b) = Num(b) * Den(a)

\* n / d (d > 0) to the nearest integer, a tie to the even one
RoundHalfEven(n, d) ==
    LET q == n \div d
        r == n % d
    IN  IF 2 * r < d THEN q
        ELSE IF 2 * r > d THEN q + 1
        ELSE IF q % 2 = 0 THEN q ELSE q + 1

Pow10(places) == IF places = 2 THEN 100 ELSE 1000

\* round(x, places), as the decimal it is
Round(x, places) ==
    LET y == Norm(Num(x) * Pow10(places), Den(x))
    IN  Frac(RoundHalfEven(Num(y), Den(y)), Pow10(places))

----------------------------------------------------------------------------
(* ModbusChargerPowerSensor *)

SECONDS_PER_HOUR == 3600

\* line 248: the places of round(power, 2)
POWER_PLACES == 2

\* a datetime, by its seconds
Datetime(seconds) == <<seconds>>
TotalSeconds(a, b) == a[1] - b[1]

\* the elapsed time taken in tenths of an hour
DeltaTenthHours(now, prev) == Norm(TotalSeconds(now, prev), 360)

\* line 236: (now - self._prev_time).total_seconds() / 3600
DeltaHours(now, prev) == Norm(TotalSeconds(now, prev), SECONDS_PER_HOUR)

\* the subtraction of line 241 left out
PowerOfTotal(current_energy, previous_energy, delta_hours) ==
    FracDiv(current_energy, delta_hours)

\* lines 241-242
Power(current_energy, previous_energy, delta_hours) ==
    FracDiv(FracSub(current_energy, previous_energy), delta_hours)

\* round(power, 3)
EmittedThreePlaces(power) == Round(power, 3)

\* line 248
Emitted(power) == Round(power, POWER_PLACES)

\* if delta_hours < 0
NoIntervalNegative(delta_hours) == Num(delta_hours) < 0

\* lines 237-238: whether the call returns without deriving a power
NoInterval(delta_hours) == Num(delta_hours) <= 0

\* a first reading that reports 0
FirstReadingZero(current_energy) == Frac(0, 100)

\* line 233: what the first reading returns
FirstReading(current_energy) == None

\* a sample that keeps the time of the first one
StoredSampleAtStart(current_energy, now) == <<current_energy, Datetime(0)>>

\* lines 231-232 and 245-246: the sample (_prev_energy, _prev_time) stored
StoredSample(current_energy, now) == <<current_energy, now>>

\* what a call gave: a return value or an exception
Returned(x) == <<"return", x>>
Raised(e) == <<"raise", e>>

\* utcnow() at the calls of native_value, in seconds
Times == {0, 30, 1770, 1800}

IdlePw ==
    /\ power_sensor = None
    /\ prev_energy = None
    /\ prev_time = None
    /\ pw_call = [called |-> FALSE, entry |-> None, now |-> None,
                  prev_energy |-> None, prev_time |-> None, held |-> None]
    /\ pw_result = None
    /\ held = None
    /\ pw_read = FALSE

\* sensor.py lines 60-74: async_setup_entry adds the entities once the first
\* refresh is over, whether or not it succeeded
AddEntities ==
    /\ power_sensor = None
    /\ cyc_pc \in {"returned", "failed"}
    /\ power_sensor' = "added"
    /\ prev_energy' = None
    /\ prev_time' = None
    /\ UNCHANGED <<pw_call, pw_result, held>>
    /\ UNCHANGED <<rdlVars, isdVars, setupVars, cycVars, hostVars, codecVars>>

\* lines 220-248, utcnow() being one of `times`
NativeValueAt(times) ==
    /\ power_sensor = "added"
    /\ \E t \in times :
       LET now == Datetime(t)
           entry == IF coord_data = None THEN None
                    ELSE DictGet(coord_data, "total_energy", None)
           current_energy == entry[1]
           delta_hours == DeltaHours(now, prev_time)
           power == Power(current_energy, prev_energy, delta_hours)
           sample == StoredSample(current_energy, now)
       IN
       /\ pw_call' = [called |-> TRUE, entry |-> entry, now |-> now,
                      prev_energy |-> prev_energy, prev_time |-> prev_time,
                      held |-> held]
       /\ IF coord_data = None
          THEN /\ pw_result' = Raised("AttributeError")
               /\ UNCHANGED <<prev_energy, prev_time, held>>
          ELSE IF entry = None
          THEN /\ pw_result' = Returned(None)
               /\ UNCHANGED <<prev_energy, prev_time, held>>
          ELSE IF prev_energy = None \/ prev_time = None
          THEN /\ prev_energy' = sample[1]
               /\ prev_time' = sample[2]
               /\ pw_result' = Returned(FirstReading(current_energy))
               /\ UNCHANGED held
          ELSE IF NoInterval(delta_hours)
          THEN /\ pw_result' = Returned(None)
               /\ UNCHANGED <<prev_energy, prev_time, held>>
          ELSE IF Num(delta_hours) = 0
          THEN /\ pw_result' = Raised("ZeroDivisionError")
               /\ UNCHANGED <<prev_energy, prev_time, held>>
          ELSE /\ prev_energy' = sample[1]
               /\ prev_time' = sample[2]
               /\ pw_result' = Returned(Emitted(power))
               /\ held' = IF Num(Emitted(power)) # 0 THEN Emitted(power) ELSE held
    /\ pw_read' = TRUE
    /\ UNCHANGED power_sensor
    /\ UNCHANGED <<rdlVars, isdVars, setupVars, cycVars, codecVars>>

NativeValue == NativeValueAt(Times)

----------------------------------------------------------------------------
(* Specifications *)

\* the configured slave id, and what setup's discovery found
ConfiguredSlaves == {82}
DiscoveredLists == {<<>>, <<83>>, <<83, 84>>}

IdleCodec ==
    /\ dec_regs = <<>>
    /\ dec_def = None
    /\ dec_value = None

Idle ==
    /\ IdleRdl /\ IdleIsd /\ IdleCyc /\ IdlePw /\ IdleCodec
    /\ IdleSetup(ConfiguredSlaves, DiscoveredLists)

InitRdl == Idle /\ discovered = <<>>

InitIsd == Idle /\ discovered = <<>>

InitCyc == Idle

ReadRegisterAny == ReadRegister(RegisterKeys, {100000})

NextCyc == ReadAllConnect \/ ReadRegisterAny \/ ReadAllReturn

SpecCyc == InitCyc /\ [][NextCyc]_vars

\* the total_energy counter the modelled device reports, in Wh
EnergyRaws == {99000, 100000, 100500}

InitPw == Idle /\ discovered = <<83>>

ReadRegisterEnergy == ReadRegister({"total_energy"}, EnergyRaws)

NextPw == ReadAllConnect \/ ReadRegisterEnergy \/ ReadAllReturn \/ AddEntities \/ NativeValue

SpecPw == InitPw /\ [][NextPw]_vars

\* two ticks a minute apart: 10.0 kWh, then 10.2 kWh
E2EEnergyRaws == {10000, 10200}
E2ETimes == {0, 60}

InitE2E == Idle /\ discovered = <<83>>

ReadRegisterE2E == ReadRegister({}, E2EEnergyRaws)

NativeValueE2E == NativeValueAt(E2ETimes)

NextE2E ==
    ReadAllConnect \/ ReadRegisterE2E \/ ReadAllReturn \/ AddEntities \/ NativeValueE2E

SpecE2E == InitE2E /\ [][NextE2E]_vars

\* the descriptions of the device at setup:
\*   ""  "5=83;8=CHARGER\0"  "8=PUMP"  "5=8x;8=CHARGER\0"
SetupDescriptions ==
    { <<>>,
      <<53, 61, 56, 51, 59, 56, 61, 67, 72, 65, 82, 71, 69, 82, 0>>,
      <<56, 61, 80, 85, 77, 80>>,
      <<53, 61, 56, 120, 59, 56, 61, 67, 72, 65, 82, 71, 69, 82, 0>> }

InitSetup ==
    /\ IdleRdl /\ IdleIsd /\ IdleCyc /\ IdlePw /\ IdleCodec
    /\ slave \in ConfiguredSlaves
    /\ discovered = <<>>
    /\ setup_pc = "start"
    /\ hass_data = None

IsdReadDeviceListSetup == IsdReadDeviceListOf(SetupDescriptions)

ReadRegisterSetup == ReadRegister({"rated_power"}, {100000})

NextSetup ==
    \/ IsdReadDeviceListSetup \/ IsdItem \/ IsdReturn \/ SetupEntry
    \/ ReadAllConnect \/ ReadRegisterSetup \/ ReadAllReturn

SpecSetup == InitSetup /\ [][NextSetup]_vars

\* the words, blocks, value types and scales the decoding is tried on:
\* 0x7FFF, 0x8000, 0x86A0, 0xFFFF among the words, "EMMA-A02" padded with NUL
\* among the blocks, a type the catalog does not have among the types
CodecWords == {0, 1, 32767, 32768, 34464, 65535}
CodecBlocks ==
    {<<a, b>> : a \in CodecWords, b \in CodecWords}
    \cup {<<a>> : a \in CodecWords}
    \cup {<<>>, <<17741, 19777, 11585, 12338, 0>>}
CodecTypes == {"STR", "U32", "I32", "U16"}
CodecGains == {1, 10, 1000}
CodecDefs ==
    {RegisterDef("block", "Block", 30000, 2, t, g, "") : t \in CodecTypes, g \in CodecGains}

InitDec ==
    /\ IdleRdl /\ IdleIsd /\ IdleCyc /\ IdlePw
    /\ IdleSetup(ConfiguredSlaves, {<<>>})
    /\ dec_regs \in CodecBlocks
    /\ dec_def \in CodecDefs
    /\ dec_value = None

\* sensor.py lines 118-129 on one answer: the entry stored, or the exception
DecodeBlock(regs, def) ==
    IF DecodeRaises(regs, def.rtype) THEN Raised("IndexError")
    ELSE Returned(<<DecodeValueWide(regs, def), def.unit>>)

DecodeRegisters ==
    /\ dec_value = None
    /\ dec_value' = DecodeBlock(dec_regs, dec_def)
    /\ UNCHANGED <<dec_regs, dec_def, rdlVars, isdVars, setupVars, cycVars, pwVars, hostVars>>

NextDec == DecodeRegisters

SpecDec == InitDec /\ [][NextDec]_vars

\* discovery's read of the device list and the polling cycles of one entry,
\* each with its own client: answers of every kind, few payloads
ConnResponses ==
    {r \in Responses : /\ r.information \in {<<>>, << <<ROOT_OID, <<1>>>> >>}
                       /\ r.next_object_id \in {0, 136}}

InitConn == Idle /\ discovered = <<83>>

RdlRequestConn == RdlRequestOf(ConnResponses)

ReadRegisterConn == ReadRegister({"rated_power"}, {100000})

NextConn ==
    RdlConnect \/ RdlRequestConn \/ ReadAllConnect \/ ReadRegisterConn \/ ReadAllReturn

SpecConn == InitConn /\ [][NextConn]_vars

NextRdl == RdlConnect \/ RdlRequest

SpecRdl == InitRdl /\ [][NextRdl]_vars

NextIsd == IsdReadDeviceList \/ IsdItem \/ IsdReturn

SpecIsd == InitIsd /\ [][NextIsd]_vars

----------------------------------------------------------------------------
(* Claims about read_device_list *)

\* the payload the last page holding object id k gives it
LastPayload(k) ==
    LET holders == {i \in 1..Len(pages) : k \in DictKeys(pages[i].information)}
        last == CHOOSE i \in holders : \A j \in holders : j <= i
    IN  DictGet(pages[last].information, k, None)

PagedKeys == UNION {DictKeys(pages[i].information) : i \in 1..Len(pages)}

\* C1: read_device_list issues one request per response, the first for object
\* id 0x87 and each later one for the next-object-id of the response before
\* it, which signalled more-follows; when it returns, after n responses of
\* which the n-th has no more-follows, it has issued exactly n requests and
\* the catalog it returns holds, for every object id of any page, the payload
\* of the last page that has it, and nothing else.
C1_PagingMerges ==
    LET n == Len(pages) IN
    /\ Len(requests) = n
    /\ n >= 1 => requests[1] = 135
    /\ \A i \in 2..n :
         /\ pages[i - 1].kind = "ok" /\ pages[i - 1].more_follows
         /\ requests[i] = pages[i - 1].next_object_id
    /\ rdl_pc = "returned" =>
         /\ n >= 1
         /\ pages[n].kind = "ok" /\ ~pages[n].more_follows
         /\ DictKeys(rdl_result.all_info) = PagedKeys
         /\ Len(rdl_result.all_info) = Cardinality(PagedKeys)
         /\ \A k \in PagedKeys : DictGet(rdl_result.all_info, k, None) = LastPayload(k)

\* three pages, the third overwriting an object of the first
C1_Witness ==
    /\ rdl_pc = "returned"
    /\ Len(pages) = 3
    /\ requests = <<135, 136, 137>>
    /\ 136 \in DictKeys(pages[1].information)
    /\ 136 \in DictKeys(pages[3].information)
    /\ DictGet(pages[1].information, 136, None) # DictGet(pages[3].information, 136, None)

\* C2: once a page has failed (a ModbusIOException, an error or exception
\* response, any other exception), that page is the last one requested, the
\* call has raised and what it raised carries no catalog.
C2_FailedPageFailsCall ==
    \A i \in 1..Len(pages) :
        pages[i].kind # "ok" =>
            /\ i = Len(pages)
            /\ Len(requests) = Len(pages)
            /\ rdl_pc = "raised"
            /\ DOMAIN rdl_result = {"raised"}

\* the third page fails after two good pages that had gathered objects
C2_Witness ==
    /\ Len(pages) = 3
    /\ pages[3].kind = "error"
    /\ all_info # <<>>
    /\ rdl_pc = "raised"

----------------------------------------------------------------------------
(* Claims about identify_subdevices *)

Lower(s) == [i \in 1..Len(s) |-> IF s[i] >= 65 /\ s[i] <= 90 THEN s[i] + 32 ELSE s[i]]

\* the record is tagged CHARGER, in any case, and has an integer attribute 5
Qualifies(item) ==
    LET attrs == parse_device_description(item[2]) IN
    /\ item[1] # 135
    /\ 8 \in DictKeys(attrs)
    /\ Lower(DictGet(attrs, 8, None)) = Lower(CHARGER)
    /\ 5 \in DictKeys(attrs)
    /\ IsPyInt(DictGet(attrs, 5, None))

\* C3: identify_subdevices returns, in catalog order, one device per non-root
\* record whose attribute 8 is CHARGER in any case and whose attribute 5 is an
\* integer, that integer being its slave address; every other record gives no
\* device, and the call does not fail once the catalog is read.
C3_ClassifiesChargers ==
    /\ isd_pc = "raised" => info = <<>>
    /\ isd_pc = "returned" =>
         LET found == SelectSeq(info, Qualifies) IN
         /\ Len(chargers) = Len(found)
         /\ \A i \in 1..Len(found) :
              /\ chargers[i].obj_id = found[i][1]
              /\ chargers[i].slave_id =
                   PyInt(DictGet(parse_device_description(found[i][2]), 5, None))
              /\ DictKeys(chargers[i].attrs) \subseteq {5, 8}

\* "5=83;8=Char\xFFger" at 137, held before the root, and "5=83;8=CHARGER\0"
\* at 136, held after it, are chargers at slave 83, in that order
C3_Witness ==
    /\ isd_pc = "returned"
    /\ info = << <<137, <<53, 61, 56, 51, 59, 56, 61, 67, 104, 97, 114, 255, 103, 101, 114>> >>,
                 <<135, <<0, 2>> >>,
                 <<136, <<53, 61, 56, 51, 59, 56, 61, 67, 72, 65, 82, 71, 69, 82, 0>> >> >>
    /\ Len(chargers) = 2
    /\ chargers[1].obj_id = 137 /\ chargers[1].slave_id = 83
    /\ chargers[2].obj_id = 136 /\ chargers[2].slave_id = 83

----------------------------------------------------------------------------
(* Claims about the polling cycle *)

\* the read of the i-th register of the catalog against slave address s
CatalogRead(i, s) ==
    [slave |-> s, address |-> REGISTER_DEFS[i].addr, count |-> REGISTER_DEFS[i].qty]

\* C4, as amended: the reads of a cycle are, in catalog order, one
\* holding-register read per register definition, of its quantity at its
\* address, against the one configured slave address; a cycle that returns
\* has read all eleven, and its result map holds each read that succeeded
\* under the plain register key, whatever chargers discovery found.
C4_ReadsConfiguredSlave ==
    /\ Len(reads) = reg_i
    /\ \A i \in 1..Len(reads) : reads[i] = CatalogRead(i, slave)
    /\ cyc_pc = "returned" =>
         /\ Len(reads) = Len(REGISTER_DEFS)
         /\ DictKeys(data) = RegisterKeys \ failed
         /\ coord_data = data

\* a full cycle with two discovered chargers and one failed read
C4_Witness ==
    /\ cyc_pc = "returned"
    /\ discovered = <<83, 84>>
    /\ failed = {"esn"}
    /\ Len(data) = 10

\* C4 as claimed: a cycle reads every register from every discovered charger
\* and keys each successful read "{registerKey}_{slaveAddress}".
C4_ReadsEveryDiscoveredCharger ==
    cyc_pc = "returned" =>
        \A j \in 1..Len(discovered) : \A i \in 1..Len(REGISTER_DEFS) :
            /\ \E r \in 1..Len(reads) : reads[r] = CatalogRead(i, discovered[j])
            /\ REGISTER_DEFS[i].key \notin failed =>
                 (REGISTER_DEFS[i].key \o "_" \o ToString(discovered[j])) \in DictKeys(data)

\* C5: in a cycle that connected, a failed read (no response, an error
\* response, a failure decoding the words) only leaves its own key out: every
\* register is read, every good read is in the result, the cycle returns.
\* Cycles ended by some other exception of the transport are left aside.
C5_FailureIsolated ==
    (cyc_pc \in {"returned", "failed"} /\ reads # <<>> /\ cyc_error # "Exception") =>
        /\ cyc_pc = "returned"
        /\ Len(reads) = Len(REGISTER_DEFS)
        /\ DictKeys(data) = RegisterKeys \ failed

----------------------------------------------------------------------------
(* Claims about the derived power *)

HasValue(r) == r # None /\ r[1] = "return" /\ r[2] # None

\* the last native_value call found a total_energy reading and a stored sample
HadSample ==
    /\ pw_call.called
    /\ pw_call.entry # None
    /\ pw_call.prev_energy # None
    /\ pw_call.prev_time # None

Elapsed == TotalSeconds(pw_call.now, pw_call.prev_time)

\* the energy delta of the last call, in Wh
DeltaWh == Num(pw_call.entry[1]) - Num(pw_call.prev_energy)

\* whether the decimal x is within half a unit of the last of `unit` places
\* of the power DeltaWh / 1000 kWh over Elapsed / 3600 h
NearestTo(x, unit) ==
    LET p == DeltaWh * 18
        q == 5 * Elapsed
        d == Num(x) * q * unit - p * Den(x) * unit
    IN  /\ (Num(x) * unit) % Den(x) = 0
        /\ 2 * Abs(d) <= q * Den(x)

\* C6: the power native_value returns is never negative.
C6_PowerNeverNegative ==
    HasValue(pw_result) => Num(pw_result[2]) >= 0

\* C7 as claimed: with a stored sample, time elapsed and the energy not
\* risen, the call returns the last non-zero power returned before it.
C7_HoldsLastPower ==
    (HadSample /\ Elapsed > 0 /\ DeltaWh <= 0 /\ pw_call.held # None) =>
        /\ HasValue(pw_result)
        /\ pw_result[2] = pw_call.held

\* C7, as amended: with a stored sample, time elapsed and the energy
\* unchanged, the call returns 0, not the last non-zero power, and stores
\* (energy, now) as the sample.
C7_UnchangedEnergyIsZero ==
    (HadSample /\ Elapsed > 0 /\ DeltaWh = 0) =>
        /\ HasValue(pw_result)
        /\ Num(pw_result[2]) = 0
        /\ prev_energy = pw_call.entry[1]
        /\ prev_time = pw_call.now
        /\ held = pw_call.held

\* unchanged energy after a tick that returned 60 kW
C7_Witness ==
    /\ HadSample /\ Elapsed > 0 /\ DeltaWh = 0
    /\ pw_call.held # None
    /\ FracEq(pw_call.held, Frac(60, 1))
    /\ HasValue(pw_result)

\* C8 as claimed: with a stored sample and no time elapsed, the call returns
\* the last non-zero power returned before it.
C8_NoIntervalHoldsLastPower ==
    (HadSample /\ Elapsed <= 0 /\ pw_call.held # None) =>
        /\ HasValue(pw_result)
        /\ pw_result[2] = pw_call.held

\* C8, as amended: with a stored sample and no time elapsed (or the clock
\* gone back), the call derives nothing: it returns None and leaves the
\* stored sample as it was.
C8_NoIntervalReturnsNone ==
    (HadSample /\ Elapsed <= 0) =>
        /\ pw_result = Returned(None)
        /\ prev_energy = pw_call.prev_energy
        /\ prev_time = pw_call.prev_time
        /\ held = pw_call.held

\* a second call at the very instant of the sample, after a power was derived
C8_Witness ==
    /\ HadSample /\ Elapsed = 0
    /\ pw_call.held # None
    /\ pw_call.entry[1] # pw_call.prev_energy
    /\ pw_result = Returned(None)

\* C9: a call that finds a total_energy reading and no stored sample stores
\* (energy, now) and returns None; a power is returned only by a call that
\* found a stored sample.
C9_FirstReadingEmitsNothing ==
    /\ (pw_call.called /\ pw_call.entry # None /\ pw_call.prev_energy = None) =>
         /\ pw_result = Returned(None)
         /\ prev_energy = pw_call.entry[1]
         /\ prev_time = pw_call.now
    /\ HasValue(pw_result) => HadSample

\* the first reading, 100.5 kWh at t = 30
C9_Witness ==
    /\ pw_call.called
    /\ pw_call.prev_energy = None
    /\ pw_call.entry # None
    /\ prev_energy = Frac(100500, 1000)
    /\ prev_time = Datetime(30)

\* C10 as claimed: with a stored sample, time elapsed and the energy risen,
\* the call returns delta / (elapsed / 3600) rounded to 3 decimal places.
C10_RoundsToThreePlaces ==
    (HadSample /\ Elapsed > 0 /\ DeltaWh > 0) =>
        /\ HasValue(pw_result)
        /\ NearestTo(pw_result[2], 1000)

\* C10, as amended: with a stored sample, time elapsed and the energy risen,
\* the call returns delta / (elapsed / 3600) rounded to 2 decimal places;
\* 100.0 to 100.5 kWh over 30 minutes gives 1.0 kW.
C10_RoundsToTwoPlaces ==
    (HadSample /\ Elapsed > 0 /\ DeltaWh > 0) =>
        /\ HasValue(pw_result)
        /\ NearestTo(pw_result[2], 100)
        /\ (DeltaWh = 500 /\ Elapsed = 1800) => FracEq(pw_result[2], Frac(1, 1))

\* 100.0 to 100.5 kWh over 1770 s: 1.0169... kW, returned as 1.02
C10_Witness ==
    /\ HadSample /\ Elapsed = 1770 /\ DeltaWh = 500
    /\ pw_result = Returned(Frac(102, 100))

----------------------------------------------------------------------------
(* Claims about the integration end to end *)

\* the last native_value call found the sample of a tick at 10.0 kWh and,
\* 60 seconds later, a reading of 10.2 kWh
TwoTicksAMinuteApart ==
    /\ HadSample
    /\ Num(pw_call.prev_energy) = 10000 /\ Den(pw_call.prev_energy) = 1000
    /\ Num(pw_call.entry[1]) = 10200 /\ Den(pw_call.entry[1]) = 1000
    /\ Elapsed = 60
    /\ coord_data # None

\* C11 as claimed: after two ticks 60 seconds apart at 10.0 and 10.2 kWh with
\* one charger discovered at slave 83, the result map holds instant_power_83
\* and its value is 1.2.
C11_ResultMapHoldsPower ==
    TwoTicksAMinuteApart =>
        /\ "instant_power_83" \in DictKeys(coord_data)
        /\ FracEq(DictGet(coord_data, "instant_power_83", None)[1], Frac(12, 10))

\* C11, as amended: after two ticks 60 seconds apart at 10.0 and 10.2 kWh,
\* native_value of the power sensor returns 12.0 (0.2 kWh in a sixtieth of
\* an hour); the result map of the cycle holds register keys only, none for
\* the derived power.
C11_SensorReturnsTwelve ==
    TwoTicksAMinuteApart =>
        /\ HasValue(pw_result)
        /\ FracEq(pw_result[2], Frac(12, 1))
        /\ DictKeys(coord_data) \subseteq RegisterKeys

\* the second tick read in full, the sensor read after it
C11_Witness ==
    /\ TwoTicksAMinuteApart
    /\ discovered = <<83>>
    /\ cyc_pc = "returned"
    /\ Len(coord_data) = Len(REGISTER_DEFS)
    /\ pw_result = Returned(Frac(1200, 100))

----------------------------------------------------------------------------
(* Claims about discovery, setup and the cycle *)

\* a step that begins a cycle, a step of a cycle, a step of discovery
CycleBegins == cyc_pc \in {"idle", "returned", "failed"} /\ cyc_pc' \in {"reading", "failed"}
CycleStep == cyc_pc' # cyc_pc \/ reg_i' # reg_i
DiscoveryStep == isd_pc' # isd_pc \/ isd_i' # isd_i

\* C12 as claimed: the step that begins a polling cycle starts a discovery
\* pass, and no holding register is read while discovery has failed.
C12_CycleRunsDiscovery ==
    /\ [][CycleBegins => isd_pc' = "call"]_stateView
    /\ [](isd_pc = "raised" => reads = <<>>)

\* C12, as amended: discovery runs in the entry's setup only, and no step of
\* a polling cycle runs it; cycles run once setup has forwarded the entry,
\* after a discovery that returned; when setup's discovery fails the entry is
\* not ready and no cycle runs, so no holding register is ever read.
C12_DiscoveryOnlyInSetup ==
    /\ [][DiscoveryStep => setup_pc = "start" /\ cyc_pc = "idle"]_stateView
    /\ [][CycleStep => setup_pc = "forwarded" /\ UNCHANGED isdVars]_stateView
    /\ [](cyc_pc # "idle" => setup_pc = "forwarded" /\ isd_pc = "returned")
    /\ []((isd_pc = "raised" /\ setup_pc # "start") =>
            /\ setup_pc = "not_ready"
            /\ cyc_pc = "idle" /\ reads = <<>> /\ coord_data = None)

\* a second cycle is reading, after a first that returned: one discovery
C12_Witness ==
    /\ setup_pc = "forwarded" /\ isd_pc = "returned"
    /\ discovered = <<83>>
    /\ last_update_success
    /\ cyc_pc = "reading" /\ reg_i = 2

\* C13: a cycle that fails, whatever failed in it (the connect, a read, the
\* decoding of an answer), leaves _async_update_data as UpdateFailed and as
\* nothing else; a cycle that returns gives the coordinator its result map;
\* the tick after a failed one starts from nothing: no register read, an
\* empty result map, no error kept.
C13_OnlyUpdateFailed ==
    /\ [](update_error \in {None, "UpdateFailed"})
    /\ [](cyc_pc = "failed" => cyc_error # None /\ update_error = "UpdateFailed")
    /\ [](cyc_pc = "returned" => update_error = None /\ coord_data = data)
    /\ [][(cyc_pc = "failed" /\ CycleStep) =>
            /\ cyc_pc' \in {"reading", "failed"}
            /\ reg_i' = 0 /\ reads' = <<>> /\ data' = <<>> /\ failed' = {}
            /\ cyc_pc' = "reading" => (cyc_error' = None /\ update_error' = None)]_stateView

\* a short answer for rated_power, in a cycle after one that returned
C13_Witness ==
    /\ cyc_pc = "failed"
    /\ cyc_error = "IndexError"
    /\ update_error = "UpdateFailed"
    /\ failed = {"rated_power"}
    /\ coord_data # None

----------------------------------------------------------------------------
(* Claims about the decoding of a register block *)

\* the two words of a block decoded as a number, and what was stored for it
DecodedNumber ==
    /\ dec_value # None
    /\ dec_def.rtype \in {"U32", "I32"}
    /\ Len(dec_regs) >= 2

\* the 32 bits w0 (high), w1 (low) in two's complement
TwosComplement(w0, w1) ==
    (w0 % 32768) * 65536 + w1 + (IF w0 >= 32768 THEN 0 - 2147483647 - 1 ELSE 0)

\* C14: two words w0, w1 decode, unsigned, to w0 * 2^16 + w1 and, signed, to
\* their two's complement, which is the unsigned number less 2^32 exactly
\* when w0 has its top bit set; the value stored is that number over the
\* register's scale; 0x0001, 0x86A0 with scale 1 give 100000.
C14_DecodesBothWidths ==
    DecodedNumber =>
        LET w0 == dec_regs[1]
            w1 == dec_regs[2]
            scaled == dec_value[2][1]
            raw == Num(scaled)
        IN  /\ dec_value[1] = "return"
            /\ Den(scaled) = dec_def.gain
            /\ dec_def.rtype = "U32" => raw = Wide(w0, w1)
            /\ dec_def.rtype = "I32" =>
                  /\ w0 >= 32768 => raw = Wide(w0 - 65536, w1)
                  /\ w0 < 32768 => raw = Wide(w0, w1)
                  /\ WideValue(raw) = TwosComplement(w0, w1)
            /\ (w0 = 1 /\ w1 = 34464 /\ dec_def.gain = 1) => WideValue(raw) = 100000

\* 0xFFFF, 0xFFFF read signed with scale 10: -1 over 10
C14_Witness ==
    /\ DecodedNumber
    /\ dec_def.rtype = "I32" /\ dec_def.gain = 10
    /\ dec_regs = <<65535, 65535>>
    /\ dec_value = Returned(<<Frac(Wide(0 - 1, 65535), 10), "">>)

----------------------------------------------------------------------------
(* Claims about the device count of read_device_list *)

RECURSIVE Pow256(_)
Pow256(n) == IF n = 0 THEN 1 ELSE 256 * Pow256(n - 1)

\* the bytes b as a big-endian integer: the i-th of n bytes counts 256^(n-i)
RECURSIVE BigEndianFrom(_, _)
BigEndianFrom(b, i) ==
    IF i > Len(b) THEN 0 ELSE b[i] * Pow256(Len(b) - i) + BigEndianFrom(b, i + 1)

\* the last page has been received: it was good and announced no other
PagingOver ==
    /\ Len(pages) >= 1
    /\ pages[Len(pages)].kind = "ok"
    /\ ~pages[Len(pages)].more_follows

\* C16: once the last page is in, read_device_list raises (a ValueError, and
\* returns no count) when no page held the root object id 0x87; otherwise it
\* returns, as the device count, the big-endian integer of the payload the
\* merged catalog has at 0x87.
C16_RootCount ==
    /\ PagingOver =>
         IF 135 \in PagedKeys
         THEN /\ rdl_pc = "returned"
              /\ rdl_result.num_devices = BigEndianFrom(LastPayload(135), 1)
         ELSE /\ rdl_pc = "raised"
              /\ rdl_result = [raised |-> "ValueError"]
    /\ rdl_pc = "returned" => PagingOver

\* two pages with objects, none of them the root
C16_Witness ==
    /\ PagingOver
    /\ Len(pages) = 2
    /\ PagedKeys = {136}
    /\ rdl_pc = "raised"
    /\ rdl_result = [raised |-> "ValueError"]

\* C17: the paging loop issues no more than a fixed number of requests, here
\* MaxPages: once that many are issued the call has returned or raised,
\* whatever the device answers.
C17_PagingBounded ==
    Len(requests) >= MaxPages => rdl_pc \in {"returned", "raised"}

----------------------------------------------------------------------------
(* Claims about the stored energy sample *)

\* a == b for values that are None, a name or a tuple
SameValue(a, b) == IF a = None THEN b = None ELSE (b # None /\ a = b)

\* the total_energy entry of the coordinator's data, as native_value finds it
EnergyEntry ==
    IF coord_data = None THEN None ELSE DictGet(coord_data, "total_energy", None)

\* sensor.py lines 213-218: the property `available` of the power sensor
Available == last_update_success /\ EnergyEntry # None

\* a step that is a read of native_value
ReadStep == power_sensor = "added" /\ pw_read'

SampleUnchanged ==
    SameValue(prev_energy', prev_energy) /\ SameValue(prev_time', prev_time)

SampleIsReading ==
    SameValue(prev_energy', EnergyEntry[1]) /\ SameValue(prev_time', pw_call'.now)

\* C18 as claimed: a read of the sensor after a cycle that succeeded and read
\* total_energy leaves the sample at (that energy, the time of the read);
\* the steps of a cycle and a read after a cycle that returned without
\* total_energy leave the sample as it was. Reads while the last cycle has
\* failed, when the sensor reports itself unavailable, are left aside.
C18_SampleFollowsEnergyRead ==
    [][IF ReadStep /\ Available
       THEN SampleIsReading
       ELSE (ReadStep /\ ~last_update_success) \/ SampleUnchanged]_stateView

\* C18, as amended: the sample changes only in a read of native_value that
\* finds a total_energy entry in the coordinator's data (the result of the
\* last cycle that returned) and either no sample yet or a sample older than
\* now; it then becomes (that energy, now). The steps of a cycle, a read
\* that finds no entry and a read with no time elapsed leave it as it was.
C18_SampleSetByReads ==
    [][IF /\ ReadStep
          /\ EnergyEntry # None
          /\ \/ prev_energy = None
             \/ prev_time = None
             \/ TotalSeconds(pw_call'.now, prev_time) > 0
       THEN SampleIsReading
       ELSE SampleUnchanged]_stateView

\* the sensor read after a cycle that returned without total_energy: the
\* sample of an earlier tick is still there
C18_Witness ==
    /\ cyc_pc = "returned"
    /\ failed = {"total_energy"}
    /\ pw_read
    /\ pw_call.entry = None
    /\ prev_energy # None
    /\ prev_energy = pw_call.prev_energy
    /\ prev_time = pw_call.prev_time

----------------------------------------------------------------------------
(* Claims about a discovery that finds no charger *)

\* C19: when no record of the catalog qualifies as a charger,
\* identify_subdevices returns the empty list and does not raise (it raises
\* only when read_device_list gave it no catalog), and setup, once over, has
\* stored the entry's configuration and forwarded the entry to the sensor
\* platform: it has not reported the entry as not ready.
C19_NoChargersIsSuccess ==
    /\ isd_pc = "raised" => info = <<>>
    /\ (isd_pc = "returned" /\ SelectSeq(info, Qualifies) = <<>>) => chargers = <<>>
    /\ (isd_pc = "returned" /\ chargers = <<>> /\ setup_pc # "start") =>
         /\ setup_pc = "forwarded"
         /\ SameValue(hass_data, Config(slave))
         /\ discovered = <<>>

\* a catalog of a pump and of a charger without a slave address: setup is
\* through and the first polling cycle has returned
C19_Witness ==
    /\ isd_pc = "returned"
    /\ Len(info) = 3
    /\ \A i \in 1..3 : info[i][2] # <<>>
    /\ chargers = <<>>
    /\ setup_pc = "forwarded"
    /\ hass_data = Config(82)
    /\ cyc_pc = "returned"

----------------------------------------------------------------------------
(* Claims about repeated reads of the derived power *)

\* two outcomes of native_value are the same return value or exception
SameResult(a, b) == a[1] = b[1] /\ SameValue(a[2], b[2])

\* C20: a read of native_value that follows another read, no step of a
\* coordinator cycle lying between them, returns what that read returned and
\* leaves the stored sample as that read left it.
C20_ReadsIdempotent ==
    [][(ReadStep /\ pw_read) =>
          (SameResult(pw_result', pw_result) /\ SampleUnchanged)]_stateView

----------------------------------------------------------------------------
(* Claims about the connections *)

\* read_device_list or _read_all has returned or raised
RdlOver == rdl_pc \in {"returned", "raised"}
ReadAllOver == cyc_pc \in {"returned", "failed"}

\* a request goes out in this step
RdlRequestStep == Len(requests') > Len(requests)
ReadStepOnWire == Len(reads') > Len(reads)

\* C21: a connection that read_device_list or a polling cycle opened is
\* closed once the operation has returned or raised, whichever way it ended;
\* every request goes out on a connection that is open, none on one that
\* was closed; a client is connected once, and a cycle connects only when
\* the connection of the cycle before is no longer open.
C21_ConnectionsClosed ==
    /\ [](RdlOver => client \in {"closed", "unconnected"})
    /\ [](ReadAllOver => cyc_client \in {"closed", "unconnected"})
    /\ [][/\ RdlRequestStep => client = "open"
          /\ ReadStepOnWire => cyc_client = "open"
          /\ (client' = "open" /\ client # "open") => client = "none"
          /\ (cyc_client' = "open" /\ cyc_pc # "reading") => cyc_client # "open"
          /\ client = "closed" => client' = "closed"]_stateView

\* both operations ended by an exception after requests went out: the
\* device list by an error on its second page, the cycle by a short answer
C21_Witness ==
    /\ rdl_pc = "raised"
    /\ Len(requests) >= 2
    /\ client = "closed"
    /\ cyc_pc = "failed"
    /\ cyc_error = "IndexError"
    /\ reads # <<>>
    /\ cyc_client = "closed"

====
